---- MODULE Spec2Model ----
(***************************************************************************)
(* A model of server.js: the incident-report server.  The state is the     *)
(* SQLite store (three incident tables and the notification table), the    *)
(* wall clock, and the requests in flight, each with the position of its   *)
(* handler.  One action is one turn of the handler: the synchronous part   *)
(* of a route, or one statement executed by the storage engine together    *)
(* with the callback / continuation it resumes.                            *)
(*                                                                         *)
(* Timestamps: toISOString() yields fixed-width UTC strings whose          *)
(* lexicographic order is chronological, so a timestamp is modelled as the *)
(* integer instant it denotes and string comparison as integer <= .        *)
(* The wall clock is taken to be non-decreasing.                           *)
(*                                                                         *)
(* Fields named ops, pre, dirty and dirtySnap, and the variable accepted,  *)
(* are history (ghost) state: they record what a request has done and are  *)
(* never read by the modelled code.                                        *)
(***************************************************************************)
EXTENDS Integers, Sequences, FiniteSets, TLC

VARIABLES
    now,            \* the wall clock (instant read by new Date())
    tz,             \* the server's time-zone offset, local = UTC + tz
    incidents,      \* table name -> sequence of rows, in rowid order
    notifications,  \* the notifications table, in rowid order
    req,            \* request slot -> the request in flight in it
    openai,         \* whether OPENAI_API_KEY is set, so that a client exists
    accepted        \* ghost: scenario -> submits fully written since last clear

vars == <<now, tz, incidents, notifications, req, openai, accepted>>

-----------------------------------------------------------------------------
(* Bounds of the model *)

MaxInFlight == 2    \* request slots: requests that may be in flight together
MaxRows == 2        \* cap on incident rows, and on notification rows
MaxRowsNoFault == 3 \* the same cap where no statement fails
MaxTime == 2        \* last instant the clock reaches
DayLen == 2         \* instants per calendar day

Slots == 1..MaxInFlight
Times == 1..MaxTime
TzOffsets == {0}

-----------------------------------------------------------------------------
(* Scenario registry *)

Registered == {"tempered-id", "immigration-queue", "tempered-passport"}

SCENARIOS ==
    [k \in Registered |->
        CASE k = "tempered-id" ->
               [table |-> "tempered_id", label |-> "Tampered ID",
                fixedMessage |-> "Alert received: A tampered ID was reported. Security has been notified. Please follow verification protocol A."]
          [] k = "immigration-queue" ->
               [table |-> "immigration_queue", label |-> "Immigration Queue Photo",
                fixedMessage |-> "Update noted: A photo of the immigration queue was received. Operations will adjust staffing to reduce wait times."]
          [] k = "tempered-passport" ->
               [table |-> "tempered_passport", label |-> "Tampered Passport",
                fixedMessage |-> "Alert received: A tampered passport was reported. Border control procedure B is now in effect."]]

\* SCENARIOS is a plain object literal: besides its own three keys, a lookup
\* finds the properties every object inherits from Object.prototype.
InheritedKeys == {"constructor"}

\* Keys a request may carry: the registered ones, an inherited property name,
\* and a key that is no property at all.
ScenarioKeys == Registered \cup InheritedKeys \cup {"lost-luggage"}

\* The value of SCENARIOS[scenario], as a sequence: <<>> when it is undefined
\* (falsy), <<cfg>> otherwise.  An inherited property is a truthy value that
\* has no table, label or fixedMessage: those read as undefined.
Cfg(scenario) ==
    IF scenario \in Registered THEN <<SCENARIOS[scenario]>>
    ELSE IF scenario \in InheritedKeys
         THEN <<[table |-> "undefined", label |-> "undefined",
                 fixedMessage |-> "undefined"]>>
         ELSE <<>>

Tables == {SCENARIOS[k].table : k \in Registered}

-----------------------------------------------------------------------------
(* Uploads *)

NoFile == ""
Filenames == {"1_photo.jpg"}

FilePath(file) == <<"/uploads/", file>>

-----------------------------------------------------------------------------
(* Clock *)

\* sod.setHours(0,0,0,0): the latest local midnight at or before instant t.
StartOfDay(t, offset) == t - ((t + offset) % DayLen)

-----------------------------------------------------------------------------
(* Store reads *)

RECURSIVE CountWhere(_, _, _)
CountWhere(rows, lo, hi) ==
    IF rows = <<>> THEN 0
    ELSE (IF lo <= Head(rows).created_at /\ Head(rows).created_at <= hi
          THEN 1 ELSE 0) + CountWhere(Tail(rows), lo, hi)

\* Mutant of CountAll: COUNT(DISTINCT created_at).
CountDistinctInstants(rows) ==
    Cardinality({rows[i].created_at : i \in 1..Len(rows)})

\* SELECT COUNT(*) AS c FROM table
CountAll(rows) == Len(rows)

\* Mutant of CountToday: created_at > ? in place of created_at >= ?.
CountTodayAfterStart(rows, startIso, nowIso) == CountWhere(rows, startIso + 1, nowIso)

\* SELECT COUNT(*) AS c FROM table WHERE created_at >= ? AND created_at <= ?
CountToday(rows, startIso, nowIso) == CountWhere(rows, startIso, nowIso)

RECURSIVE MaxCreatedAt(_)
MaxCreatedAt(rows) ==
    IF Len(rows) = 1 THEN Head(rows).created_at
    ELSE LET m == MaxCreatedAt(Tail(rows))
         IN  IF Head(rows).created_at >= m THEN Head(rows).created_at ELSE m

RECURSIVE MinCreatedAt(_)
MinCreatedAt(rows) ==
    IF Len(rows) = 1 THEN Head(rows).created_at
    ELSE LET m == MinCreatedAt(Tail(rows))
         IN  IF Head(rows).created_at <= m THEN Head(rows).created_at ELSE m

\* Mutant of LatestCreatedAt: ORDER BY created_at ASC.
OldestCreatedAt(rows) == IF rows = <<>> THEN <<>> ELSE <<MinCreatedAt(rows)>>

\* SELECT created_at AS t FROM table ORDER BY created_at DESC LIMIT 1, then
\* `?.t || null`: <<>> stands for null.
LatestCreatedAt(rows) == IF rows = <<>> THEN <<>> ELSE <<MaxCreatedAt(rows)>>

-----------------------------------------------------------------------------
(* Store writes *)

IncidentRow(createdAt, filePath) ==
    [created_at |-> createdAt, file_path |-> filePath]

\* Mutant of NotificationRow: the notification is stamped when it is written.
NotificationRowStampedAnew(createdAt, scenario, message) ==
    [created_at |-> now, scenario |-> scenario, message |-> message]

NotificationRow(createdAt, scenario, message) ==
    [created_at |-> createdAt, scenario |-> scenario, message |-> message]

\* Mutant of DeleteAll: the delete removes the oldest row only.
DeleteOldest(rows) == IF rows = <<>> THEN <<>> ELSE Tail(rows)

\* DELETE FROM table
DeleteAll(rows) == <<>>

\* An altered delete, which removes the notifications of every scenario.
DeleteEveryScenario(rows, scenario) == <<>>

RECURSIVE DeleteScenario(_, _)
\* DELETE FROM notifications WHERE scenario = ?
DeleteScenario(rows, scenario) ==
    IF rows = <<>> THEN <<>>
    ELSE IF Head(rows).scenario = scenario
         THEN DeleteScenario(Tail(rows), scenario)
         ELSE <<Head(rows)>> \o DeleteScenario(Tail(rows), scenario)

\* A statement succeeds when the engine reports no fault and the table it
\* names exists; a statement against a table that does not exist is an error.
StatementOk(table, ok) == ok /\ table \in Tables

-----------------------------------------------------------------------------
(* Requests and responses *)

NoResponse ==
    [status |-> 0, error |-> "", ok |-> FALSE, scenario |-> "", filePath |-> <<>>,
     chatbotMessage |-> "", kpis |-> <<>>, items |-> <<>>, reply |-> ""]

ErrorResponse(status, error) ==
    [NoResponse EXCEPT !.status = status, !.error = error]

Idle ==
    [kind |-> "none", pc |-> "idle", scenario |-> "", file |-> NoFile,
     clearNotifications |-> FALSE, createdAt |-> 0, filePath |-> <<>>,
     nowIso |-> 0, startIso |-> 0, total |-> 0, today |-> 0,
     notifDelete |-> "none", response |-> NoResponse,
     range |-> <<>>, limit |-> 0,
     messages |-> <<>>, ctxStep |-> 0, ctx |-> <<>>, sent |-> <<>>,
     ops |-> {}, pre |-> 0, dirty |-> FALSE, dirtySnap |-> FALSE]

\* A handler that has no step left: it has just answered ("done"), it was
\* abandoned by an unhandled rejection without answering ("unanswered"), or
\* it ended some steps ago ("gone").
Terminal == {"idle", "done", "unanswered", "gone"}

\* A slot whose handler has no step left and whose statements have all run.
Finished(q) == q.pc \in Terminal /\ q.notifDelete # "pending"

\* A new request takes the lowest slot that is free.
Free(r) ==
    /\ Finished(req[r])
    /\ \A p \in Slots : p < r => ~Finished(req[p])

\* What is kept of a request once the server takes another step.  Of a
\* finished request nothing is kept: its slot is free again.  Of a request
\* whose handler has ended while a statement of it is still to run, the
\* statement is kept and the response, delivered by now, is not.
Forgotten(q) ==
    IF Finished(q) THEN Idle
    ELSE IF q.pc \in Terminal
         THEN [Idle EXCEPT !.kind = q.kind, !.pc = "gone", !.scenario = q.scenario,
                           !.clearNotifications = q.clearNotifications,
                           !.notifDelete = q.notifDelete, !.ops = q.ops]
         ELSE q

InFlight(q) == q.pc \notin Terminal

TableOf(q) == IF Cfg(q.scenario) = <<>> THEN "" ELSE Cfg(q.scenario)[1].table

\* Ghost: a write to `table` is noted by every other request in flight on
\* that table: in dirty always, in dirtySnap while its metrics are being read.
Noted(q, table) ==
    IF InFlight(q) /\ TableOf(q) = table
    THEN [q EXCEPT !.dirty = TRUE,
                   !.dirtySnap = (@ \/ q.pc \in {"readTotal", "readToday", "readLast"})]
    ELSE Forgotten(q)

\* Slot r becomes `rec`; the other slots keep their requests in flight.
Become(r, rec) == req' = [q \in Slots |-> IF q = r THEN rec ELSE Forgotten(req[q])]

\* Slot r becomes `rec` by a write to `table`.
BecomeWriting(r, rec, table) ==
    req' = [q \in Slots |-> IF q = r THEN rec ELSE Noted(req[q], table)]

\* Ghost: statement `name` of request q has run, with outcome `ok`.
Ran(q, name, ok) == [q EXCEPT !.ops = @ \cup {<<name, ok>>}]

Respond(q, response) ==
    [q EXCEPT !.pc = "done", !.response = response,
              !.nowIso = 0, !.startIso = 0, !.total = 0, !.today = 0]

Abandon(q) ==
    [q EXCEPT !.pc = "unanswered",
              !.nowIso = 0, !.startIso = 0, !.total = 0, !.today = 0]

PendingIncidentInserts ==
    Cardinality({r \in Slots : req[r].pc = "insertIncident"})

PendingNotificationInserts ==
    Cardinality({r \in Slots : req[r].pc \in {"insertIncident", "insertNotification"}})

RECURSIVE SumRows(_)
SumRows(ts) ==
    IF ts = {} THEN 0
    ELSE LET t == CHOOSE x \in ts : TRUE
         IN  Len(incidents[t]) + SumRows(ts \ {t})

\* The model admits a submit only while the store has room for its rows.
RoomForSubmit(cap) ==
    /\ SumRows(Tables) + PendingIncidentInserts < cap
    /\ Len(notifications) + PendingNotificationInserts < cap

-----------------------------------------------------------------------------
(* getKpisForTable *)

\* The synchronous head of getKpisForTable: nowIso from one reading of the
\* clock, startIso from a second reading, taken at instant `t2`.
BeginKpis(q, t2) ==
    [q EXCEPT !.pc = "readTotal", !.nowIso = now, !.startIso = StartOfDay(t2, tz),
              !.dirtySnap = FALSE]

\* The instants the second reading of the clock may show.
SecondReadings == {t \in {now, now + 1} : t <= MaxTime}

KpisValue(q, last) ==
    [totalReports |-> q.total, reportsToday |-> q.today, lastReportTime |-> last]

\* The response each route builds around the metrics.
KpisResponse(q, kpis) ==
    CASE q.kind = "submit" ->
           [NoResponse EXCEPT !.status = 200, !.ok = TRUE, !.scenario = q.scenario,
                              !.filePath = q.filePath,
                              !.chatbotMessage = Cfg(q.scenario)[1].fixedMessage,
                              !.kpis = <<kpis>>]
      [] q.kind = "kpis" ->
           [NoResponse EXCEPT !.status = 200, !.scenario = q.scenario,
                              !.kpis = <<kpis>>]
      [] q.kind = "clear" ->
           [NoResponse EXCEPT !.status = 200, !.ok = TRUE, !.scenario = q.scenario,
                              !.chatbotMessage = "Data cleared. All counters and alerts reset to 0 for this scenario.",
                              !.kpis = <<kpis>>]

\* A rejected read.  The kpis route awaits inside its try block and answers
\* 500.  In the submit and clear routes the await sits in a storage callback
\* that runs after the route's try block has been left: nothing handles the
\* rejection and no response is sent.
KpisRejected(q) ==
    IF q.kind = "kpis" THEN Respond(q, ErrorResponse(500, "Unexpected error"))
    ELSE Abandon(q)

KpisReadTotal(r, ok) ==
    /\ req[r].pc = "readTotal"
    /\ LET q == req[r]
       IN  IF StatementOk(TableOf(q), ok)
           THEN Become(r, [q EXCEPT !.pc = "readToday",
                                    !.total = CountAll(incidents[TableOf(q)])])
           ELSE Become(r, KpisRejected(q))
    /\ UNCHANGED <<now, tz, incidents, notifications, openai, accepted>>

KpisReadToday(r, ok) ==
    /\ req[r].pc = "readToday"
    /\ LET q == req[r]
       IN  IF StatementOk(TableOf(q), ok)
           THEN Become(r, [q EXCEPT !.pc = "readLast",
                                    !.today = CountToday(incidents[TableOf(q)],
                                                         q.startIso, q.nowIso),
                                    !.nowIso = 0, !.startIso = 0])
           ELSE Become(r, KpisRejected(q))
    /\ UNCHANGED <<now, tz, incidents, notifications, openai, accepted>>

KpisReadLast(r, ok) ==
    /\ req[r].pc = "readLast"
    /\ LET q == req[r]
       IN  IF StatementOk(TableOf(q), ok)
           THEN Become(r, Respond(q, KpisResponse(q,
                            KpisValue(q, LatestCreatedAt(incidents[TableOf(q)])))))
           ELSE Become(r, KpisRejected(q))
    /\ UNCHANGED <<now, tz, incidents, notifications, openai, accepted>>

-----------------------------------------------------------------------------
(* POST /api/submit *)

\* Mutant of SubmitValidation: the attachment is not checked.
SubmitValidationOfScenarioOnly(scenario, file) ==
    IF Cfg(scenario) = <<>> THEN "Invalid scenario" ELSE ""

\* The two checks at the head of the route: the error to answer 400 with,
\* or "" when the request passes.
SubmitValidation(scenario, file) ==
    IF Cfg(scenario) = <<>> THEN "Invalid scenario"
    ELSE IF file = NoFile THEN "Photo is required"
    ELSE ""

StartSubmit(r, scenario, file) ==
    /\ Free(r)
    /\ LET q == [Idle EXCEPT !.kind = "submit", !.scenario = scenario, !.file = file]
       IN  IF SubmitValidation(scenario, file) # ""
           THEN Become(r, Respond(q, ErrorResponse(400, SubmitValidation(scenario, file))))
           ELSE Become(r, [q EXCEPT !.pc = "insertIncident",
                                    !.createdAt = now,
                                    !.filePath = FilePath(file),
                                    !.pre = IF TableOf(q) \in Tables
                                            THEN Len(incidents[TableOf(q)]) ELSE 0])
    /\ UNCHANGED <<now, tz, incidents, notifications, openai, accepted>>

\* Mutant of IncidentInserted: the callback goes on after an error.
IncidentInsertedIgnoringError(q, ok) == [q EXCEPT !.pc = "insertNotification"]

\* The incident insert's callback: on error answer 500 and stop, otherwise
\* issue the notification insert.
IncidentInserted(q, ok) ==
    IF ok THEN [q EXCEPT !.pc = "insertNotification"]
    ELSE Respond(q, ErrorResponse(500, "DB insert failed"))

\* INSERT INTO <table> (created_at, file_path) VALUES (?, ?), and its callback.
SubmitInsertIncident(r, ok) ==
    /\ req[r].pc = "insertIncident"
    /\ LET q == req[r]
           t == TableOf(q)
           done == StatementOk(t, ok)
       IN  /\ incidents' = IF done
                           THEN [incidents EXCEPT
                                   ![t] = Append(@, IncidentRow(q.createdAt, q.filePath))]
                           ELSE incidents
           /\ BecomeWriting(r, IncidentInserted(Ran(q, "insertIncident", done), done),
                            IF done THEN t ELSE "")
    /\ UNCHANGED <<now, tz, notifications, openai, accepted>>

\* Mutant of NotificationInserted: the callback goes on after an error.
NotificationInsertedIgnoringError(q, ok) == [q EXCEPT !.pc = "submitCallback"]

\* The notification insert's callback, on error: answer 500 and stop.  On
\* success the callback goes on as SubmitCallback.
NotificationInserted(q, ok) ==
    IF ok THEN [q EXCEPT !.pc = "submitCallback"]
    ELSE Respond(q, ErrorResponse(500, "Notify insert failed"))

\* INSERT INTO notifications (created_at, scenario, message) VALUES (?, ?, ?).
SubmitInsertNotification(r, ok) ==
    /\ req[r].pc = "insertNotification"
    /\ LET q == req[r]
       IN  /\ notifications' =
                 IF ok
                 THEN Append(notifications,
                             NotificationRow(q.createdAt, q.scenario,
                                             Cfg(q.scenario)[1].fixedMessage))
                 ELSE notifications
           /\ accepted' = IF ok THEN [accepted EXCEPT ![q.scenario] = @ + 1]
                          ELSE accepted
           /\ Become(r, NotificationInserted(Ran(q, "insertNotification", ok), ok))
    /\ UNCHANGED <<now, tz, incidents, openai>>

\* The notification insert's callback, on success: enter getKpisForTable.
SubmitCallback(r, t2) ==
    /\ req[r].pc = "submitCallback"
    /\ t2 \in SecondReadings
    /\ now' = t2
    /\ Become(r, BeginKpis(req[r], t2))
    /\ UNCHANGED <<tz, incidents, notifications, openai, accepted>>

-----------------------------------------------------------------------------
(* GET /api/kpis *)

StartKpis(r, scenario, t2) ==
    /\ Free(r)
    /\ t2 \in SecondReadings
    /\ LET q == [Idle EXCEPT !.kind = "kpis", !.scenario = scenario]
       IN  IF Cfg(scenario) = <<>>
           THEN /\ Become(r, Respond(q, ErrorResponse(400, "Invalid scenario")))
                /\ now' = now
           ELSE /\ Become(r, BeginKpis(q, t2))
                /\ now' = t2
    /\ UNCHANGED <<tz, incidents, notifications, openai, accepted>>

-----------------------------------------------------------------------------
(* POST /api/clear *)

StartClear(r, scenario, clearNotifications) ==
    /\ Free(r)
    /\ LET q == [Idle EXCEPT !.kind = "clear", !.scenario = scenario,
                             !.clearNotifications = clearNotifications]
       IN  IF Cfg(scenario) = <<>>
           THEN Become(r, Respond(q, ErrorResponse(400, "Invalid scenario")))
           ELSE Become(r, [q EXCEPT !.pc = "deleteIncidents"])
    /\ UNCHANGED <<now, tz, incidents, notifications, openai, accepted>>

\* The incident delete's callback, on error: answer 500 and stop.  On
\* success the callback goes on as ClearCallback.
IncidentsDeleted(q, ok) ==
    IF ok THEN [q EXCEPT !.pc = "clearCallback"]
    ELSE Respond(q, ErrorResponse(500, "DB clear failed"))

\* DELETE FROM <table>.
ClearDeleteIncidents(r, ok) ==
    /\ req[r].pc = "deleteIncidents"
    /\ LET q == req[r]
           t == TableOf(q)
           done == StatementOk(t, ok)
       IN  /\ incidents' = IF done THEN [incidents EXCEPT ![t] = DeleteAll(@)]
                           ELSE incidents
           /\ accepted' = IF done THEN [accepted EXCEPT ![q.scenario] = 0]
                          ELSE accepted
           /\ BecomeWriting(r, IncidentsDeleted(
                                 [Ran(q, "deleteIncidents", done) EXCEPT
                                    !.dirty = FALSE,
                                    !.pre = IF done THEN Len(incidents[t]) ELSE 0],
                                 done),
                            IF done THEN t ELSE "")
    /\ UNCHANGED <<now, tz, notifications, openai>>

\* The incident delete's callback, on success: issue the notification delete
\* without waiting for it (when clearNotifications), then enter
\* getKpisForTable.
ClearCallback(r, t2) ==
    /\ req[r].pc = "clearCallback"
    /\ t2 \in SecondReadings
    /\ now' = t2
    /\ Become(r, [BeginKpis(req[r], t2) EXCEPT
                     !.notifDelete = IF req[r].clearNotifications
                                     THEN "pending" ELSE "none"])
    /\ UNCHANGED <<tz, incidents, notifications, openai, accepted>>

\* An altered callback of the notification delete, which answers 500 on error.
NotificationsDeletedAnsweringError(q, ok) ==
    IF ok THEN [q EXCEPT !.notifDelete = "done"]
    ELSE [Respond(q, ErrorResponse(500, "DB clear failed")) EXCEPT !.notifDelete = "failed"]

\* The notification delete's callback: it logs an error and does nothing
\* else, so the request goes on as it would have.
NotificationsDeleted(q, ok) ==
    [q EXCEPT !.notifDelete = IF ok THEN "done" ELSE "failed"]

\* DELETE FROM notifications WHERE scenario = ?, issued and not awaited: it
\* runs at any point after ClearCallback, also after the response.  Its
\* callback only logs an error.
ClearDeleteNotifications(r, ok) ==
    /\ req[r].notifDelete = "pending"
    /\ LET q == req[r]
       IN  /\ notifications' = IF ok THEN DeleteScenario(notifications, q.scenario)
                               ELSE notifications
           /\ Become(r, NotificationsDeleted(Ran(q, "deleteNotifications", ok), ok))
    /\ UNCHANGED <<now, tz, incidents, openai, accepted>>

-----------------------------------------------------------------------------
(* Notification queries *)

\* Rows per page of the notifications feed when the request names no limit.
DefaultLimit == 100

\* Rows of the recent-activity list of the alerts context.
RecentLimit == 10

\* Messages of the chat history passed on to the language model.
HistoryLimit == 10

\* date(created_at), and date('now'): the UTC calendar day of an instant.
UtcDay(t) == t \div DayLen

Take(seq, n) == SubSeq(seq, 1, IF Len(seq) < n THEN Len(seq) ELSE n)

RECURSIVE Select(_, _, _)
\* The rows that pass WHERE scenario = ? (when `scenario` is given) AND
\* date(created_at) BETWEEN ? AND ? (when `range` is given).
Select(rows, scenario, range) ==
    IF rows = <<>> THEN <<>>
    ELSE LET h == Head(rows)
             keep == /\ (scenario = "" \/ h.scenario = scenario)
                     /\ (range = <<>> \/ (/\ range[1] <= UtcDay(h.created_at)
                                           /\ UtcDay(h.created_at) <= range[2]))
         IN  (IF keep THEN <<h>> ELSE <<>>) \o Select(Tail(rows), scenario, range)

RECURSIVE Orderings(_, _)
\* ORDER BY created_at DESC: every order of the rows `idx` of `rows` in which
\* created_at does not increase.  The engine leaves the order of rows with
\* equal created_at open.
Orderings(rows, idx) ==
    IF idx = {} THEN {<<>>}
    ELSE LET latest == {i \in idx : \A j \in idx : rows[j].created_at <= rows[i].created_at}
         IN  UNION {{<<rows[i]>> \o rest : rest \in Orderings(rows, idx \ {i})} : i \in latest}

\* An altered query, which ignores its limit.
LatestFirstUnbounded(rows, limit) == Orderings(rows, DOMAIN rows)

\* ... ORDER BY created_at DESC LIMIT ?: the results the engine may return.
LatestFirst(rows, limit) == {Take(o, limit) : o \in Orderings(rows, DOMAIN rows)}

RECURSIVE CountSince(_, _, _)
\* SELECT COUNT(*) AS c FROM notifications WHERE scenario = '<key>' AND
\* created_at >= date('now','start of day').  date() yields the UTC day as
\* 'YYYY-MM-DD'; a created_at string is >= it exactly when its own day is not
\* earlier.
CountSince(rows, scenario, t) ==
    IF rows = <<>> THEN 0
    ELSE (IF Head(rows).scenario = scenario /\ UtcDay(Head(rows).created_at) >= UtcDay(t)
          THEN 1 ELSE 0) + CountSince(Tail(rows), scenario, t)

-----------------------------------------------------------------------------
(* GET /api/notifications *)

StartNotifications(r, scenario, range, limit) ==
    /\ Free(r)
    /\ Become(r, [Idle EXCEPT !.kind = "notifications", !.pc = "queryNotifications",
                              !.scenario = scenario, !.range = range, !.limit = limit])
    /\ UNCHANGED <<now, tz, incidents, notifications, openai, accepted>>

\* SELECT created_at, scenario, message FROM notifications [WHERE ...]
\* ORDER BY created_at DESC LIMIT ?, awaited inside the route's try block.
QueryNotifications(r, ok) ==
    /\ req[r].pc = "queryNotifications"
    /\ LET q == req[r]
       IN  IF ok
           THEN \E items \in LatestFirst(Select(notifications, q.scenario, q.range), q.limit) :
                   Become(r, Respond(q, [NoResponse EXCEPT !.status = 200, !.items = items]))
           ELSE Become(r, Respond(q, ErrorResponse(500, "Unexpected error")))
    /\ UNCHANGED <<now, tz, incidents, notifications, openai, accepted>>

-----------------------------------------------------------------------------
(* detectScenario *)

\* A text is the sequence of its characters.
UpperCase == <<"A", "B", "C", "D", "E", "F", "G", "H", "I", "J", "K", "L", "M",
               "N", "O", "P", "Q", "R", "S", "T", "U", "V", "W", "X", "Y", "Z">>
LowerCase == <<"a", "b", "c", "d", "e", "f", "g", "h", "i", "j", "k", "l", "m",
               "n", "o", "p", "q", "r", "s", "t", "u", "v", "w", "x", "y", "z">>

ToLowerChar(c) ==
    IF \E i \in DOMAIN UpperCase : UpperCase[i] = c
    THEN LowerCase[CHOOSE i \in DOMAIN UpperCase : UpperCase[i] = c]
    ELSE c

ToLowerCase(text) == [i \in DOMAIN text |-> ToLowerChar(text[i])]

\* s.includes(part)
Includes(s, part) ==
    \E i \in 0..(Len(s) - Len(part)) : SubSeq(s, i + 1, i + Len(part)) = part

KeyText(k) ==
    CASE k = "tempered-id" -> <<"t", "e", "m", "p", "e", "r", "e", "d", "-", "i", "d">>
      [] k = "immigration-queue" ->
           <<"i", "m", "m", "i", "g", "r", "a", "t", "i", "o", "n", "-", "q", "u", "e", "u", "e">>
      [] k = "tempered-passport" ->
           <<"t", "e", "m", "p", "e", "r", "e", "d", "-", "p", "a", "s", "s", "p", "o", "r", "t">>

\* Object.keys(SCENARIOS), in insertion order.
ScenarioOrder == <<"tempered-id", "immigration-queue", "tempered-passport">>

\* An altered detection, which looks for "queue" before "passport".
detectScenarioQueueFirst(text) ==
    LET s == ToLowerCase(text)
    IN  IF Includes(s, <<"q", "u", "e", "u", "e">>) THEN "immigration-queue"
        ELSE IF Includes(s, <<"p", "a", "s", "s", "p", "o", "r", "t">>) THEN "tempered-passport"
        ELSE IF Includes(s, <<"i", "d">>) THEN "tempered-id"
        ELSE ""

\* The key detected in a free text; "" stands for null.
detectScenario(text) ==
    LET s == ToLowerCase(text)
    IN  IF Includes(s, <<"p", "a", "s", "s", "p", "o", "r", "t">>) THEN "tempered-passport"
        ELSE IF Includes(s, <<"q", "u", "e", "u", "e">>) THEN "immigration-queue"
        ELSE IF Includes(s, <<"i", "d">>) THEN "tempered-id"
        ELSE IF \E i \in DOMAIN ScenarioOrder : Includes(s, KeyText(ScenarioOrder[i]))
             THEN ScenarioOrder[CHOOSE i \in DOMAIN ScenarioOrder :
                                   /\ Includes(s, KeyText(ScenarioOrder[i]))
                                   /\ \A j \in 1..(i - 1) :
                                         ~Includes(s, KeyText(ScenarioOrder[j]))]
             ELSE ""

-----------------------------------------------------------------------------
(* buildAlertsContext *)

\* The order in which the totals, and then the today counts, are read.
ContextOrder == <<"tempered-id", "tempered-passport", "immigration-queue">>

\* The context before its first read: the detected scenario, and no count.
EmptyContext(userMsg) ==
    [scenario |-> detectScenario(userMsg),
     totals |-> [k \in Registered |-> 0],
     today |-> [k \in Registered |-> 0],
     recent |-> <<>>]

\* One line of the recent-activity list.  The registered messages are shorter
\* than the 180 characters a line keeps and hold no run of white space, so a
\* line carries its notification's message as stored.
Line(row) == [created_at |-> row.created_at, scenario |-> row.scenario,
              message |-> row.message]

Lines(last10) == [i \in DOMAIN last10 |-> Line(last10[i])]

\* The snapshot text: the totals line, the today line and the list, or the
\* "(none)" placeholder in place of an empty list.
ContextText(ctx) ==
    [totals |-> ctx.totals, today |-> ctx.today, recent |-> Lines(ctx.recent),
     none |-> (ctx.recent = <<>>)]

\* The k-th awaited read of buildAlertsContext, k in 1..7, with `last10` the
\* rows the seventh read returns.
ContextRead(ctx, k, last10) ==
    IF k <= 3
    THEN [ctx EXCEPT !.totals[ContextOrder[k]] =
                        CountAll(incidents[SCENARIOS[ContextOrder[k]].table])]
    ELSE IF k <= 6
    THEN [ctx EXCEPT !.today[ContextOrder[k - 3]] =
                        CountSince(notifications, ContextOrder[k - 3], now)]
    ELSE [ctx EXCEPT !.recent = last10]

\* An altered seventh read, which ignores the detected scenario.
RecentRowsUnfiltered(ctx) == LatestFirst(notifications, RecentLimit)

\* The results the seventh read may return.
RecentRows(ctx) == LatestFirst(Select(notifications, ctx.scenario, <<>>), RecentLimit)

-----------------------------------------------------------------------------
(* POST /api/llm-chat *)

\* messages.filter(m => m.role === "user").slice(-1)[0]?.content || ""
LastUser(messages) ==
    LET users == SelectSeq(messages, LAMBDA m : m.role = "user")
    IN  IF users = <<>> THEN <<>> ELSE users[Len(users)].content

\* An altered history, which keeps the first messages instead of the last.
HistoryFromStart(messages) == Take(messages, HistoryLimit)

\* messages.slice(-10)
History(messages) ==
    SubSeq(messages,
           IF Len(messages) > HistoryLimit THEN Len(messages) - HistoryLimit + 1 ELSE 1,
           Len(messages))

\* The messages passed to the language model.
Prompt(ctx, messages) ==
    <<[role |-> "system", content |-> ContextText(ctx)]>> \o History(messages)

StartChat(r, messages) ==
    /\ Free(r)
    /\ LET q == [Idle EXCEPT !.kind = "chat", !.messages = messages]
       IN  IF ~openai
           THEN Become(r, Respond(q, ErrorResponse(400, "OPENAI_API_KEY missing on server.")))
           ELSE Become(r, [q EXCEPT !.pc = "buildContext", !.ctxStep = 1,
                                    !.ctx = <<EmptyContext(LastUser(messages))>>])
    /\ UNCHANGED <<now, tz, incidents, notifications, openai, accepted>>

\* The next awaited read of buildAlertsContext, inside the route's try block;
\* after the seventh the route builds the prompt and calls the model.
ChatContextRead(r, ok) ==
    /\ req[r].pc = "buildContext"
    /\ LET q == req[r]
       IN  IF ~ok
           THEN Become(r, Respond([q EXCEPT !.ctxStep = 0, !.ctx = <<>>],
                                  ErrorResponse(500, "Chat failed.")))
           ELSE IF q.ctxStep < 7
           THEN Become(r, [q EXCEPT !.ctxStep = @ + 1,
                                    !.ctx = <<ContextRead(q.ctx[1], q.ctxStep, <<>>)>>])
           ELSE \E last10 \in RecentRows(q.ctx[1]) :
                   LET ctx == ContextRead(q.ctx[1], q.ctxStep, last10)
                   IN  Become(r, [q EXCEPT !.pc = "complete", !.ctxStep = 0, !.ctx = <<ctx>>,
                                           !.sent = Prompt(ctx, q.messages)])
    /\ UNCHANGED <<now, tz, incidents, notifications, openai, accepted>>

\* openai.chat.completions.create(...) settles: with a completion whose text
\* is `content` ("" when it has none), or with an error.
ChatCompletion(r, ok, content) ==
    /\ req[r].pc = "complete"
    /\ LET q == req[r]
       IN  IF ok
           THEN Become(r, Respond(q, [NoResponse EXCEPT
                                        !.status = 200,
                                        !.reply = IF content = "" THEN "..." ELSE content,
                                        !.scenario = q.ctx[1].scenario]))
           ELSE Become(r, Respond(q, ErrorResponse(500, "Chat failed.")))
    /\ UNCHANGED <<now, tz, incidents, notifications, openai, accepted>>

-----------------------------------------------------------------------------
(* The clock *)

Tick ==
    /\ now < MaxTime
    /\ now' = now + 1
    /\ req' = [q \in Slots |-> Forgotten(req[q])]
    /\ UNCHANGED <<tz, incidents, notifications, openai, accepted>>

-----------------------------------------------------------------------------
(* The server *)

\* The server after start-up on a new store file, with or without the key.
InitWith(keyed) ==
    /\ now = 1
    /\ tz \in TzOffsets
    /\ incidents = [t \in Tables |-> <<>>]
    /\ notifications = <<>>
    /\ req = [r \in Slots |-> Idle]
    /\ openai \in keyed
    /\ accepted = [k \in Registered |-> 0]

Init == InitWith(BOOLEAN)

InitKeyed == InitWith({TRUE})

\* A request arrives.  With `together`, requests may be in flight together;
\* without it the next request arrives only once every earlier one has run
\* to its end.
Admit(together) == together \/ \A p \in Slots : Finished(req[p])

\* One step of the submit, kpis and clear routes or of the clock, with the
\* request keys drawn from `keys`, each statement's outcome from `oks`, and
\* room in the store for `cap` rows.
Step(keys, oks, together, cap) ==
    \/ \E r \in Slots, k \in keys, f \in Filenames \cup {NoFile} :
          Admit(together) /\ RoomForSubmit(cap) /\ StartSubmit(r, k, f)
    \/ \E r \in Slots, ok \in oks : SubmitInsertIncident(r, ok)
    \/ \E r \in Slots, ok \in oks : SubmitInsertNotification(r, ok)
    \/ \E r \in Slots, t2 \in Times : SubmitCallback(r, t2)
    \/ \E r \in Slots, k \in keys, t2 \in Times :
          Admit(together) /\ StartKpis(r, k, t2)
    \/ \E r \in Slots, k \in keys, cn \in BOOLEAN :
          Admit(together) /\ StartClear(r, k, cn)
    \/ \E r \in Slots, ok \in oks : ClearDeleteIncidents(r, ok)
    \/ \E r \in Slots, t2 \in Times : ClearCallback(r, t2)
    \/ \E r \in Slots, ok \in oks : ClearDeleteNotifications(r, ok)
    \/ \E r \in Slots, ok \in oks : KpisReadTotal(r, ok)
    \/ \E r \in Slots, ok \in oks : KpisReadToday(r, ok)
    \/ \E r \in Slots, ok \in oks : KpisReadLast(r, ok)
    \/ Tick

\* Inputs of the notifications and llm-chat requests of the model.
FeedKeys == {"", "tempered-id"}
FeedRanges == {<<>>, <<0, 0>>}
FeedLimits == {1, DefaultLimit}

TextQueue == <<"Q", "u", "e", "u", "e">>
TextId == <<"I", "D">>
TextRain == <<"r", "a", "i", "n">>

ChatHistories ==
    {<<[role |-> "user", content |-> TextRain]>>,
     <<[role |-> "user", content |-> TextId],
       [role |-> "assistant", content |-> TextQueue]>>}

Replies == {"", "No alerts today."}

\* One step of the notifications and llm-chat routes.
StepReading(oks, together) ==
    \/ \E r \in Slots, k \in FeedKeys, g \in FeedRanges, l \in FeedLimits :
          Admit(together) /\ StartNotifications(r, k, g, l)
    \/ \E r \in Slots, ok \in oks : QueryNotifications(r, ok)
    \/ \E r \in Slots, h \in ChatHistories : Admit(together) /\ StartChat(r, h)
    \/ \E r \in Slots, ok \in oks : ChatContextRead(r, ok)
    \/ \E r \in Slots, ok \in oks, c \in Replies : ChatCompletion(r, ok, c)

\* Spec: requests of every route and key, one after another; statements may
\* fail.
Next == Step(ScenarioKeys, BOOLEAN, FALSE, MaxRows) \/ StepReading(BOOLEAN, FALSE)

Spec == Init /\ [][Next]_vars

\* SpecNoFault: as Spec, and no statement fails.
NextNoFault == Step(ScenarioKeys, {TRUE}, FALSE, MaxRowsNoFault)

SpecNoFault == InitKeyed /\ [][NextNoFault]_vars

\* SpecTogether: requests on one scenario in flight together; no statement
\* fails.
TogetherKeys == {"tempered-id"}

NextTogether == Step(TogetherKeys, {TRUE}, TRUE, MaxRows)

SpecTogether == InitKeyed /\ [][NextTogether]_vars

-----------------------------------------------------------------------------
(* Properties *)

\* The request in slot r has been answered with the metrics of its scenario.
AnsweredWithKpis(r) == req[r].response.status = 200 /\ req[r].response.kpis # <<>>

Kpis(r) == req[r].response.kpis[1]

RowsOf(r) == incidents[TableOf(req[r])]

\* C1, as claimed: every successful submit returns totalReports one more than
\* the scenario's count when the submission arrived, and lastReportTime equal
\* to the submission's createdAt.
C1_SubmitCountsOneMore ==
    \A r \in Slots :
        (req[r].kind = "submit" /\ AnsweredWithKpis(r))
        => /\ Kpis(r).totalReports = req[r].pre + 1
           /\ Kpis(r).lastReportTime = <<req[r].createdAt>>

\* C1, amended: the same, for every successful submit during which no other
\* request wrote the scenario's collection.
C1_SubmitCountsOneMoreUndisturbed ==
    \A r \in Slots :
        (req[r].kind = "submit" /\ AnsweredWithKpis(r) /\ ~req[r].dirty)
        => /\ Kpis(r).totalReports = req[r].pre + 1
           /\ Kpis(r).lastReportTime = <<req[r].createdAt>>

\* C1 witness: an undisturbed submit into a collection that already held an
\* older record has been answered.
C1_Witness ==
    \E r \in Slots :
        /\ req[r].kind = "submit" /\ AnsweredWithKpis(r) /\ ~req[r].dirty
        /\ req[r].pre >= 1
        /\ \E i \in 1..Len(RowsOf(r)) : RowsOf(r)[i].created_at < req[r].createdAt

\* C2: with requests one after another and no failing statement, the
\* totalReports a kpis request returns is the number of submits written to
\* the scenario since its last clear.
C2_KpisCountsSubmitsSinceClear ==
    \A r \in Slots :
        (req[r].kind = "kpis" /\ AnsweredWithKpis(r))
        => Kpis(r).totalReports = accepted[req[r].scenario]

\* C2 witness: a kpis request has returned a count of three.
C2_Witness ==
    \E r \in Slots :
        req[r].kind = "kpis" /\ AnsweredWithKpis(r) /\ Kpis(r).totalReports = 3

\* C3, as claimed: every successful clear returns totalReports = 0 and
\* lastReportTime = null.
C3_ClearReturnsZero ==
    \A r \in Slots :
        (req[r].kind = "clear" /\ AnsweredWithKpis(r))
        => Kpis(r).totalReports = 0 /\ Kpis(r).lastReportTime = <<>>

\* C3, amended: the same, for every successful clear with no write by another
\* request to the scenario's collection between its delete and its last read.
C3_ClearReturnsZeroUndisturbed ==
    \A r \in Slots :
        (req[r].kind = "clear" /\ AnsweredWithKpis(r) /\ ~req[r].dirty)
        => Kpis(r).totalReports = 0 /\ Kpis(r).lastReportTime = <<>>

\* C3 witness: an undisturbed clear that deleted records has been answered.
C3_Witness ==
    \E r \in Slots :
        /\ req[r].kind = "clear" /\ AnsweredWithKpis(r) /\ ~req[r].dirty
        /\ req[r].pre >= 1

\* Every stored record of the request's scenario lies in the current local
\* day, up to now.
AllOfToday(r) ==
    \A i \in 1..Len(RowsOf(r)) :
        StartOfDay(now, tz) <= RowsOf(r)[i].created_at /\ RowsOf(r)[i].created_at <= now

\* C4, as claimed: every metrics snapshot returned has
\* 0 <= reportsToday <= totalReports, and reportsToday = totalReports when
\* every stored record of the scenario is of the current local day.
C4_TodayWithinTotal ==
    \A r \in Slots :
        AnsweredWithKpis(r)
        => /\ 0 <= Kpis(r).reportsToday
           /\ Kpis(r).reportsToday <= Kpis(r).totalReports
           /\ AllOfToday(r) => Kpis(r).reportsToday = Kpis(r).totalReports

\* C4, amended: the same, for every snapshot with no write by another request
\* to the scenario's collection between its start and its last read.
C4_TodayWithinTotalUndisturbed ==
    \A r \in Slots :
        (AnsweredWithKpis(r) /\ ~req[r].dirtySnap)
        => /\ 0 <= Kpis(r).reportsToday
           /\ Kpis(r).reportsToday <= Kpis(r).totalReports
           /\ AllOfToday(r) => Kpis(r).reportsToday = Kpis(r).totalReports

\* C4 witness: an undisturbed snapshot that counts a record of an earlier day
\* and a record of today.
C4_Witness ==
    \E r \in Slots :
        /\ AnsweredWithKpis(r) /\ ~req[r].dirtySnap
        /\ 0 < Kpis(r).reportsToday
        /\ Kpis(r).reportsToday < Kpis(r).totalReports

\* C4 witness of the equality: an undisturbed snapshot of a collection whose
\* records are all of today.
C4_WitnessAllToday ==
    \E r \in Slots :
        /\ AnsweredWithKpis(r) /\ ~req[r].dirtySnap
        /\ AllOfToday(r) /\ Kpis(r).totalReports = 2

\* The statements of the request in slot r that have run and succeeded.
Succeeded(r) == {o \in req[r].ops : o[2]}

\* The step leaves every incident collection and the notification log as
\* they were.
StoreUnchanged == incidents' = incidents /\ notifications' = notifications

\* C5: a submit, kpis or clear request whose key is not one of the three
\* registered keys is answered 400 "Invalid scenario" and has run no
\* statement that changed the store.
C5_UnregisteredKeyRejected ==
    \A r \in Slots :
        (/\ req[r].kind \in {"submit", "kpis", "clear"}
         /\ req[r].scenario \notin Registered
         /\ req[r].pc \in {"done", "unanswered"})
        => /\ req[r].response.status = 400
           /\ req[r].response.error = "Invalid scenario"
           /\ Succeeded(r) = {}

\* A submit with a registered key and no attached file is in slot r.
WithoutAttachment(q) ==
    q.kind = "submit" /\ q.scenario \in Registered /\ q.file = NoFile

\* C6: a submit with a registered key and no attached file is answered 400
\* "Photo is required" at once, has issued no statement, and the step that
\* handles it leaves every collection and the notification log unchanged.
C6_MissingAttachmentRejected ==
    /\ [](\A r \in Slots :
            WithoutAttachment(req[r])
            => /\ req[r].pc = "done"
               /\ req[r].response.status = 400
               /\ req[r].response.error = "Photo is required"
               /\ req[r].ops = {})
    /\ [][\A r \in Slots :
            (WithoutAttachment(req'[r]) /\ req'[r] # req[r]) => StoreUnchanged]_vars

\* C6 witness: a submit without a file has been answered while the store
\* holds records.
C6_Witness ==
    \E r \in Slots :
        /\ WithoutAttachment(req[r]) /\ req[r].response.status = 400
        /\ notifications # <<>> /\ incidents[TableOf(req[r])] # <<>>

IncidentInsertFailed(q) == q.kind = "submit" /\ <<"insertIncident", FALSE>> \in q.ops

\* C7: a submit whose incident insert failed is answered 500, has issued no
\* notification insert, and the failing step leaves the notification log
\* unchanged.
C7_IncidentFailureStopsSubmit ==
    /\ [](\A r \in Slots :
            IncidentInsertFailed(req[r])
            => /\ req[r].pc = "done"
               /\ req[r].response.status = 500
               /\ req[r].response.error = "DB insert failed"
               /\ \A o \in req[r].ops : o[1] # "insertNotification")
    /\ [][\A r \in Slots :
            (IncidentInsertFailed(req'[r]) /\ ~IncidentInsertFailed(req[r]))
            => notifications' = notifications]_vars

\* C7 witness: a submit with a registered key has been answered after its
\* incident insert failed.
C7_Witness ==
    \E r \in Slots :
        /\ IncidentInsertFailed(req[r]) /\ req[r].scenario \in Registered
        /\ req[r].response.status = 500

NotificationInsertFailed(q) ==
    q.kind = "submit" /\ <<"insertNotification", FALSE>> \in q.ops

\* C8: a submit whose incident insert succeeded and whose notification insert
\* failed is answered 500 without acknowledgement or metrics, its incident
\* record is in the scenario's collection, and records leave a collection
\* only by the delete of a clear of that scenario.
C8_NotificationFailureKeepsIncident ==
    /\ [](\A r \in Slots :
            NotificationInsertFailed(req[r])
            => /\ req[r].pc = "done"
               /\ req[r].response.status = 500
               /\ req[r].response.error = "Notify insert failed"
               /\ ~req[r].response.ok
               /\ req[r].response.chatbotMessage = ""
               /\ req[r].response.kpis = <<>>
               /\ req[r].ops = {<<"insertIncident", TRUE>>, <<"insertNotification", FALSE>>}
               /\ \E i \in 1..Len(RowsOf(r)) :
                     RowsOf(r)[i] = IncidentRow(req[r].createdAt, req[r].filePath))
    /\ [][\A t \in Tables :
            incidents'[t] # incidents[t]
            => \/ \E i \in 1..Len(incidents'[t]) : incidents[t] = SubSeq(incidents'[t], 1, i - 1)
               \/ \E r \in Slots : /\ req[r].kind = "clear" /\ TableOf(req[r]) = t
                                   /\ req[r].pc = "deleteIncidents"
                                   /\ req'[r].pc # "deleteIncidents"]_vars

\* C8 witness: a submit has been answered after its notification insert
\* failed, in a collection that held a record before.
C8_Witness ==
    \E r \in Slots :
        /\ NotificationInsertFailed(req[r]) /\ req[r].response.status = 500
        /\ Len(RowsOf(r)) = 2

\* C9: every submit, kpis, clear, notifications and llm-chat request whose
\* handler has ended has been sent a response; in particular a storage fault
\* during the request is answered with a 5xx response.
C9_EveryRequestAnswered ==
    \A r \in Slots :
        req[r].pc \in {"done", "unanswered"} => req[r].response.status # 0

\* C10: a successful submit has run exactly the two inserts; the incident
\* insert appends one record to the scenario's collection and nothing else,
\* the notification insert appends one notification carrying the scenario,
\* its fixed message and the submission's createdAt, and nothing else; the
\* two rows bear the same createdAt.
C10_SubmitWritesOneOfEach ==
    /\ [](\A r \in Slots :
            (req[r].kind = "submit" /\ AnsweredWithKpis(r))
            => /\ req[r].ops = {<<"insertIncident", TRUE>>, <<"insertNotification", TRUE>>}
               /\ RowsOf(r)[Len(RowsOf(r))].created_at = req[r].createdAt
               /\ notifications[Len(notifications)].created_at = req[r].createdAt)
    /\ [][\A r \in Slots :
            (req[r].pc = "insertIncident" /\ req'[r].pc = "insertNotification")
            => /\ incidents' =
                    [incidents EXCEPT ![TableOf(req[r])] =
                        Append(@, [created_at |-> req[r].createdAt,
                                   file_path |-> req[r].filePath])]
               /\ notifications' = notifications
               /\ req'[r].createdAt = req[r].createdAt]_vars
    /\ [][\A r \in Slots :
            (req[r].pc = "insertNotification" /\ req'[r].pc = "submitCallback")
            => /\ notifications' =
                    Append(notifications,
                           [created_at |-> req[r].createdAt,
                            scenario |-> req[r].scenario,
                            message |-> SCENARIOS[req[r].scenario].fixedMessage])
               /\ incidents' = incidents
               /\ req'[r].createdAt = req[r].createdAt]_vars
    /\ [][\A r \in Slots :
            (/\ req[r].kind = "submit"
             /\ req[r].pc \in {"submitCallback", "readTotal", "readToday", "readLast"}
             /\ req'[r] # req[r])
            => StoreUnchanged]_vars

\* C10 witness: a submit stamped at an earlier instant than the present one
\* has been answered with success.
C10_Witness ==
    \E r \in Slots :
        /\ req[r].kind = "submit" /\ AnsweredWithKpis(r)
        /\ req[r].createdAt < now

\* The notifications in `rows` whose scenario is `scenario`.
OfScenario(rows, scenario) == SelectSeq(rows, LAMBDA n : n.scenario = scenario)

\* C11: with requests one after another and no failing statement, when a
\* clear of s is answered with success the collection of s is empty; with
\* clearNotifications = true the log holds no notification of s at that
\* moment, and with clearNotifications = false the clear has run no statement
\* but the incident delete.
C11_ClearedWhenAnswered ==
    \A r \in Slots :
        (req[r].kind = "clear" /\ req[r].pc = "done" /\ AnsweredWithKpis(r))
        => /\ RowsOf(r) = <<>>
           /\ req[r].clearNotifications
                => OfScenario(notifications, req[r].scenario) = <<>>
           /\ ~req[r].clearNotifications
                => /\ req[r].notifDelete = "none"
                   /\ req[r].ops = {<<"deleteIncidents", TRUE>>}

\* The notification delete of the clear q has failed.
NotificationDeleteFailed(q) == q.kind = "clear" /\ q.notifDelete = "failed"

\* C12: a clear whose notification delete failed has deleted its incidents,
\* and the response it is given is the success response with the recomputed
\* metrics; the failing delete leaves the log and the collections as they
\* were and changes neither the handler's position nor its response.
C12_NotificationDeleteFailureIgnored ==
    /\ [](\A r \in Slots :
            NotificationDeleteFailed(req[r])
            => /\ <<"deleteIncidents", TRUE>> \in req[r].ops
               /\ req[r].pc = "done"
                    => /\ req[r].response.status = 200
                       /\ req[r].response.ok
                       /\ req[r].response.error = ""
                       /\ req[r].response.kpis # <<>>)
    /\ [][\A r \in Slots :
            (req[r].notifDelete = "pending" /\ NotificationDeleteFailed(req'[r]))
            => /\ StoreUnchanged
               /\ req'[r].pc = req[r].pc
               /\ req'[r].response = req[r].response]_vars

\* C12 witness: a clear is answered with success after its notification
\* delete failed, and a notification of its scenario is in the log.
C12_Witness ==
    \E r \in Slots :
        /\ NotificationDeleteFailed(req[r]) /\ req[r].pc = "done"
        /\ req[r].response.status = 200
        /\ OfScenario(notifications, req[r].scenario) # <<>>

-----------------------------------------------------------------------------
(* detect(text), through the chat route *)

\* Texts of the detection runs: up to MaxWords words, joined by blanks.
MaxWords == 3

DetectWords ==
    {<<"P", "a", "s", "s", "P", "o", "r", "t">>,
     <<"Q", "u", "e", "u", "e">>,
     <<"I", "D">>,
     <<"v", "a", "l", "i", "d">>,
     <<"r", "a", "i", "n">>}

RECURSIVE Join(_)
Join(words) ==
    IF Len(words) = 1 THEN words[1]
    ELSE words[1] \o <<" ">> \o Join(Tail(words))

DetectTexts == UNION {{Join(ws) : ws \in [1..n -> DetectWords]} : n \in 1..MaxWords}

\* One user message with the text, or no message at all.
DetectHistories == {<<>>} \cup {<<[role |-> "user", content |-> t]>> : t \in DetectTexts}

\* SpecDetect: chat requests, one after another, on the store as it is after
\* start-up; no read and no completion fails.
NextDetect ==
    \/ \E r \in Slots, h \in DetectHistories : Admit(FALSE) /\ StartChat(r, h)
    \/ \E r \in Slots : ChatContextRead(r, TRUE)
    \/ \E r \in Slots : ChatCompletion(r, TRUE, "No alerts today.")

SpecDetect == InitKeyed /\ [][NextDetect]_vars

WordPassport == <<"p", "a", "s", "s", "p", "o", "r", "t">>
WordQueue == <<"q", "u", "e", "u", "e">>
WordId == <<"i", "d">>

\* `word`, given in lower case, occurs in `text` in some letter case.
Mentions(text, word) ==
    \E i \in 1..Len(text) :
        /\ i + Len(word) - 1 <= Len(text)
        /\ \A j \in 1..Len(word) : ToLowerChar(text[i + j - 1]) = word[j]

\* The chat request in slot r has detected the scenario of its utterance.
Detected(r) == req[r].kind = "chat" /\ req[r].ctx # <<>>

Utterance(r) == LastUser(req[r].messages)

\* C13: the scenario detected in an utterance is tempered-passport when the
\* utterance mentions "passport" in any letter case; otherwise
\* immigration-queue when it mentions "queue"; otherwise tempered-id when it
\* mentions "id"; otherwise a registered key that occurs in it.
C13_DetectByPriority ==
    \A r \in Slots :
        Detected(r)
        => LET text == Utterance(r)
               found == req[r].ctx[1].scenario
               p == Mentions(text, WordPassport)
               q == Mentions(text, WordQueue)
               i == Mentions(text, WordId)
           IN  /\ p => found = "tempered-passport"
               /\ (~p /\ q) => found = "immigration-queue"
               /\ (~p /\ ~q /\ i) => found = "tempered-id"
               /\ (~p /\ ~q /\ ~i /\ \E k \in Registered : Mentions(text, KeyText(k)))
                    => found \in {k \in Registered : Mentions(text, KeyText(k))}

\* C13 witness: an utterance that names the queue before the passport, in
\* mixed letter case, has been resolved to tempered-passport.
C13_Witness ==
    \E r \in Slots :
        /\ Detected(r)
        /\ Utterance(r) = Join(<<<<"Q", "u", "e", "u", "e">>, <<"P", "a", "s", "s", "P", "o", "r", "t">>, <<"I", "D">>>>)
        /\ req[r].ctx[1].scenario = "tempered-passport"

\* c is a letter or a digit: a character that continues a word.
WordChar(c) ==
    \/ \E i \in DOMAIN UpperCase : c \in {UpperCase[i], LowerCase[i]}
    \/ c \in {"0", "1", "2", "3", "4", "5", "6", "7", "8", "9"}

\* `word` occurs in `text`, in some letter case, as a word of its own: no
\* letter or digit comes right before it or right after it.
MentionsWord(text, word) ==
    \E i \in 1..Len(text) :
        /\ i + Len(word) - 1 <= Len(text)
        /\ \A j \in 1..Len(word) : ToLowerChar(text[i + j - 1]) = word[j]
        /\ i > 1 => ~WordChar(text[i - 1])
        /\ i + Len(word) <= Len(text) => ~WordChar(text[i + Len(word)])

\* C14: in an utterance that mentions neither "passport" nor "queue" nor a
\* registered key, tempered-id is detected exactly when "id" stands in it as
\* a word of its own, and nothing is detected otherwise.
C14_IdOnlyAsWord ==
    \A r \in Slots :
        (/\ Detected(r)
         /\ ~Mentions(Utterance(r), WordPassport)
         /\ ~Mentions(Utterance(r), WordQueue)
         /\ \A k \in Registered : ~Mentions(Utterance(r), KeyText(k)))
        => req[r].ctx[1].scenario =
              IF MentionsWord(Utterance(r), WordId) THEN "tempered-id" ELSE ""

-----------------------------------------------------------------------------
(* The context snapshot, on stores of many notifications *)

\* The longest log of the snapshot runs.
MaxLog == 13

\* Time-zone offsets of the snapshot runs: UTC, and half a day ahead of it.
SnapshotTz == {0, 1}

\* The log after n submits, one after another: `stride` submits bear each
\* instant, all of them of tempered-id or, with `mix`, every sixth of them of
\* one of the other two scenarios in turn.
SubmittedLog(n, stride, mix) ==
    [i \in 1..n |->
        LET k == IF mix /\ i % 6 = 0 THEN ScenarioOrder[((i \div 6) % 2) + 2]
                 ELSE "tempered-id"
        IN  NotificationRow((i + stride - 1) \div stride, k, SCENARIOS[k].fixedMessage)]

\* The incident rows the same submits have written to the table of scenario k.
SubmittedIncidents(log, k) ==
    [i \in DOMAIN OfScenario(log, k) |->
        IncidentRow(OfScenario(log, k)[i].created_at, FilePath("1_photo.jpg"))]

SnapshotLogs ==
    {SubmittedLog(n, stride, mix) : n \in 0..MaxLog, stride \in {1, 2}, mix \in BOOLEAN}

\* The server after the submits of some log, at an instant not before them.
InitSnapshot ==
    /\ notifications \in SnapshotLogs
    /\ incidents = [t \in Tables |->
                      IF \E k \in Registered : SCENARIOS[k].table = t
                      THEN SubmittedIncidents(notifications,
                                              CHOOSE k \in Registered : SCENARIOS[k].table = t)
                      ELSE <<>>]
    /\ accepted = [k \in Registered |-> Len(OfScenario(notifications, k))]
    /\ now \in {MaxLog, MaxLog + 1}
    /\ tz \in SnapshotTz
    /\ req = [r \in Slots |-> Idle]
    /\ openai = TRUE

SnapshotHistories ==
    {<<[role |-> "user", content |-> t]>> : t \in {TextRain, TextId, TextQueue}}

\* SpecSnapshot: chat requests, one after another, on such a store; no read
\* and no completion fails.
NextSnapshot ==
    \/ \E r \in Slots, h \in SnapshotHistories : Admit(FALSE) /\ StartChat(r, h)
    \/ \E r \in Slots : ChatContextRead(r, TRUE)
    \/ \E r \in Slots : ChatCompletion(r, TRUE, "No alerts today.")

SpecSnapshot == InitSnapshot /\ [][NextSnapshot]_vars

\* The chat request in slot r has built its snapshot.
SnapshotBuilt(r) == req[r].kind = "chat" /\ req[r].sent # <<>>

\* The snapshot text the request passes to the model.
Snapshot(r) == req[r].sent[1].content

\* C15: the recent-activity list of a snapshot has at most 10 entries, in
\* non-increasing createdAt order.
C15_RecentListBounded ==
    \A r \in Slots :
        SnapshotBuilt(r)
        => LET recent == Snapshot(r).recent
           IN  /\ Len(recent) <= 10
               /\ \A i, j \in DOMAIN recent :
                     i < j => recent[i].created_at >= recent[j].created_at

\* C15 witness: a snapshot lists ten entries of a log that holds more.
C15_Witness ==
    \E r \in Slots :
        /\ SnapshotBuilt(r)
        /\ Len(Snapshot(r).recent) = 10
        /\ Len(notifications) > 10

\* How many rows of `rows` equal `row`.
Copies(rows, row) == Cardinality({i \in DOMAIN rows : rows[i] = row})

\* The notifications a snapshot for the detected scenario d may list: those
\* of d, or all of them when nothing is detected.
Candidates(d) == IF d = "" THEN notifications ELSE OfScenario(notifications, d)

\* C16: the recent-activity list holds min(10, n) of the n candidates, each
\* no more often than the log holds it, and every candidate newer than the
\* oldest listed entry is listed; the totals of the snapshot are the sizes of
\* the three collections, whatever the utterance.
C16_RecentListIsLatestOfScenario ==
    \A r \in Slots :
        SnapshotBuilt(r)
        => LET recent == Snapshot(r).recent
               cand == Candidates(req[r].ctx[1].scenario)
           IN  /\ Len(recent) = IF Len(cand) < 10 THEN Len(cand) ELSE 10
               /\ \A i \in DOMAIN recent :
                     /\ Copies(recent, recent[i]) <= Copies(cand, recent[i])
                     /\ \A j \in DOMAIN cand :
                           cand[j].created_at > recent[i].created_at
                           => Copies(recent, cand[j]) = Copies(cand, cand[j])
               /\ \A k \in Registered :
                     Snapshot(r).totals[k] = Len(incidents[SCENARIOS[k].table])

\* C16 witness: a snapshot for a detected scenario lists ten of its
\* notifications, from a log that holds more of them and some of others.
C16_Witness ==
    /\ \E r \in Slots :
          /\ SnapshotBuilt(r) /\ req[r].ctx[1].scenario = "tempered-id"
          /\ Len(Snapshot(r).recent) = 10
          /\ Len(notifications) > 10
    /\ \E n \in DOMAIN notifications : notifications[n].scenario # "tempered-id"

\* The notifications of scenario k whose createdAt lies in the local calendar
\* day of the instant t on a server `offset` ahead of UTC: the day whose start
\* getKpisForTable takes for reportsToday.
OfLocalDay(k, t, offset) ==
    SelectSeq(OfScenario(notifications, k),
              LAMBDA n : /\ StartOfDay(t, offset) <= n.created_at
                         /\ n.created_at < StartOfDay(t, offset) + DayLen)

\* C17: the today count of each scenario in a snapshot is the number of its
\* notifications of the server's current local calendar day.
C17_TodayIsLocalDay ==
    \A r \in Slots :
        SnapshotBuilt(r)
        => \A k \in Registered :
              Snapshot(r).today[k] = Len(OfLocalDay(k, now, tz))


\* What holds in the place of C17: the today count is taken over the UTC
\* calendar day of the present instant, whatever the server's time zone.
C17_TodayIsUtcDay ==
    \A r \in Slots :
        SnapshotBuilt(r)
        => \A k \in Registered :
              Snapshot(r).today[k] = Len(OfLocalDay(k, now, 0))

-----------------------------------------------------------------------------
(* The chat history *)

\* The longest chat history of the history runs.
MaxHistory == 12

HistoryTexts == <<TextRain, TextId, TextQueue>>

\* A history of n messages whose last user message is the u-th (none when
\* u = 0): before it user and assistant take turns, after it the assistant
\* alone speaks; the texts come in turn.
HistoryOf(n, u) ==
    [i \in 1..n |->
        [role |-> IF i = u \/ (i < u /\ i % 2 = 1) THEN "user" ELSE "assistant",
         content |-> HistoryTexts[(i % 3) + 1]]]

LongHistories == {HistoryOf(n, u) : n \in 0..MaxHistory, u \in 0..MaxHistory} \ {<<>>}

\* SpecHistory: chat requests with such histories, one after another, on the
\* store as it is after start-up; no read and no completion fails.
NextHistory ==
    \/ \E r \in Slots, h \in LongHistories \cup {<<>>} : Admit(FALSE) /\ StartChat(r, h)
    \/ \E r \in Slots : ChatContextRead(r, TRUE)
    \/ \E r \in Slots : ChatCompletion(r, TRUE, "No alerts today.")

SpecHistory == InitKeyed /\ [][NextHistory]_vars

\* The content of the latest message of the user role, or the empty text.
LatestUserContent(messages) ==
    LET users == {i \in DOMAIN messages : messages[i].role = "user"}
    IN  IF users = {} THEN <<>>
        ELSE messages[CHOOSE i \in users : \A j \in users : j <= i].content

\* C18: the snapshot of a chat request is built for the content of the latest
\* user message of the whole history (the empty text when there is none), and
\* the messages passed to the model are the system message followed by the
\* last min(10, n) of the n messages, in their order.
C18_LastUserAndLastTen ==
    \A r \in Slots :
        SnapshotBuilt(r)
        => LET messages == req[r].messages
               n == Len(messages)
               kept == IF n < 10 THEN n ELSE 10
           IN  /\ req[r].ctx[1].scenario = detectScenario(LatestUserContent(messages))
               /\ Len(req[r].sent) = 1 + kept
               /\ req[r].sent[1].role = "system"
               /\ \A i \in 1..kept : req[r].sent[1 + i] = messages[n - kept + i]

\* C18 witness: in a history of more than ten messages the only user message
\* is the first, which is not among those passed on, and its scenario has
\* been detected.
C18_Witness ==
    \E r \in Slots :
        /\ SnapshotBuilt(r)
        /\ Len(req[r].messages) > 10
        /\ req[r].messages[1].role = "user"
        /\ \A i \in 2..Len(req[r].messages) : req[r].messages[i].role = "assistant"
        /\ req[r].messages[1].content = TextId
        /\ req[r].ctx[1].scenario = "tempered-id"
        /\ Len(req[r].sent) = 11

-----------------------------------------------------------------------------
(* Submits and clears in flight together *)

\* SpecRace: submits and clears with clearNotifications = true of one
\* scenario, in flight together; no statement fails.
NextRace ==
    \/ \E r \in Slots, k \in TogetherKeys, f \in Filenames :
          RoomForSubmit(MaxRows) /\ StartSubmit(r, k, f)
    \/ \E r \in Slots : SubmitInsertIncident(r, TRUE)
    \/ \E r \in Slots : SubmitInsertNotification(r, TRUE)
    \/ \E r \in Slots, t2 \in Times : SubmitCallback(r, t2)
    \/ \E r \in Slots, k \in TogetherKeys : StartClear(r, k, TRUE)
    \/ \E r \in Slots : ClearDeleteIncidents(r, TRUE)
    \/ \E r \in Slots, t2 \in Times : ClearCallback(r, t2)
    \/ \E r \in Slots : ClearDeleteNotifications(r, TRUE)
    \/ \E r \in Slots : KpisReadTotal(r, TRUE)
    \/ \E r \in Slots : KpisReadToday(r, TRUE)
    \/ \E r \in Slots : KpisReadLast(r, TRUE)
    \/ Tick

SpecRace == InitKeyed /\ [][NextRace]_vars

\* Every request has run all its statements.
Quiescent == \A r \in Slots : Finished(req[r])

\* C19: once every request has run all its statements, each scenario has as
\* many notifications in the log as records in its collection.
C19_NotificationsMatchIncidents ==
    Quiescent
    => \A k \in Registered :
          Len(OfScenario(notifications, k)) = Len(incidents[SCENARIOS[k].table])

-----------------------------------------------------------------------------
(* What a request leaves alone *)

\* The request in slot r takes the step.
Acts(r) == req'[r] # req[r] /\ req'[r].kind # "none"

\* C20: a collection changes only by the incident insert of a submit, or the
\* incident delete of a clear, of the scenario it belongs to; the
\* notifications of a scenario change only by the notification insert of a
\* submit, or the notification delete of a clear, of that scenario; and a
\* step of a kpis, notifications or llm-chat request changes nothing in the
\* store.
C20_OnlyOwnScenarioChanges ==
    [][/\ \A t \in Tables :
             incidents'[t] # incidents[t]
             => \E r \in Slots :
                   /\ req[r].kind \in {"submit", "clear"}
                   /\ req[r].pc \in {"insertIncident", "deleteIncidents"}
                   /\ Acts(r)
                   /\ req[r].scenario \in Registered
                   /\ SCENARIOS[req[r].scenario].table = t
       /\ \A k \in ScenarioKeys :
             OfScenario(notifications', k) # OfScenario(notifications, k)
             => \E r \in Slots :
                   /\ req[r].kind \in {"submit", "clear"}
                   /\ req[r].pc = "insertNotification" \/ req[r].notifDelete = "pending"
                   /\ Acts(r)
                   /\ req[r].scenario = k
       /\ (\E r \in Slots :
              Acts(r) /\ req'[r].kind \in {"kpis", "notifications", "chat"})
          => StoreUnchanged]_vars

\* C20 witness: a clear has deleted the records and the notifications of its
\* scenario while the store holds a record and a notification of another.
C20_Witness ==
    \E r \in Slots, k \in Registered :
        /\ req[r].kind = "clear" /\ req[r].notifDelete = "done"
        /\ req[r].pre > 0
        /\ k # req[r].scenario
        /\ incidents[SCENARIOS[k].table] # <<>>
        /\ OfScenario(notifications, k) # <<>>

====
